---- MODULE Spec2Model ----
(***************************************************************************)
(* Student Info App (Vue 3): the students list view (StudentsPage.vue),   *)
(* the fetch client (apiService.fetchStudents), the home page, the        *)
(* two-route router, and the React student card (Student.tsx).            *)
(*                                                                         *)
(* JavaScript strings are sequences of one-character strings, so that     *)
(* split, slice, replace and concatenation are computed and not assumed.  *)
(* JavaScript values that the code tests for truthiness are tagged        *)
(* records (see Truthy).                                                   *)
(***************************************************************************)
EXTENDS Integers, Sequences, FiniteSets

\* ---------------------------------------------------------------- bounds
\* Number of StudentsPage instances (mounts of the students route) explored.
MaxMounts == 3

\* Longest generated user name, in characters.
MaxNameLen == 5

\* Longest generated response payload, in records.
MaxUsers == 12
MaxClicks == 4

\* ------------------------------------------------------ JavaScript values
Undefined == [t |-> "undefined"]
Null == [t |-> "null"]
Str(s) == [t |-> "string", v |-> s]
Arr(a) == [t |-> "array", v |-> a]
Bool(b) == [t |-> "boolean", v |-> b]
Obj == [t |-> "object"]

\* ToBoolean of the language: undefined, null, false and "" are falsy;
\* arrays and objects are truthy.
Truthy(x) ==
    CASE x.t = "undefined" -> FALSE
      [] x.t = "null" -> FALSE
      [] x.t = "boolean" -> x.v
      [] x.t = "string" -> x.v # <<>>
      [] OTHER -> TRUE

\* a || b
OrElse(a, b) == IF Truthy(a) THEN a ELSE b

\* ---------------------------------------------------------- string helpers
UpperCase == <<"A", "B", "C", "D", "E", "F", "G", "H", "I", "J", "K", "L", "M", "N", "O", "P", "Q", "R", "S", "T", "U", "V", "W", "X", "Y", "Z">>
LowerCase == <<"a", "b", "c", "d", "e", "f", "g", "h", "i", "j", "k", "l", "m", "n", "o", "p", "q", "r", "s", "t", "u", "v", "w", "x", "y", "z">>
DigitChars == <<"0", "1", "2", "3", "4", "5", "6", "7", "8", "9">>

LowerChar(c) ==
    IF \E k \in 1..26 : UpperCase[k] = c
    THEN LowerCase[CHOOSE k \in 1..26 : UpperCase[k] = c]
    ELSE c

\* String.prototype.toLowerCase
toLowerCase(s) == [k \in 1..Len(s) |-> LowerChar(s[k])]

IsDigit(c) == \E k \in 1..10 : DigitChars[k] = c

\* s.replace(/\D/g, '')
StripNonDigits(s) == SelectSeq(s, IsDigit)

\* s.slice(a, b) for 0 <= a <= b: characters a .. b-1, clamped to the length
slice(s, a, b) == SubSeq(s, a + 1, IF b < Len(s) THEN b ELSE Len(s))

RECURSIVE SplitFrom(_, _, _, _)
SplitFrom(s, k, cur, acc) ==
    IF k > Len(s) THEN Append(acc, cur)
    ELSE IF s[k] = " " THEN SplitFrom(s, k + 1, <<>>, Append(acc, cur))
    ELSE SplitFrom(s, k + 1, Append(cur, s[k]), acc)

\* s.split(' '): every single space separates; empty segments are kept
split(s) == SplitFrom(s, 1, <<>>, <<>>)

RECURSIVE NatToStr(_)
\* Number.prototype.toString for a natural number
NatToStr(n) ==
    IF n < 10 THEN <<DigitChars[n + 1]>>
    ELSE NatToStr(n \div 10) \o <<DigitChars[(n % 10) + 1]>>


\* ------------------------------------------------------- string literals
Endpoint ==
    <<"h", "t", "t", "p", "s", ":", "/", "/", "j", "s", "o", "n", "p", "l", "a", "c", "e", "h", "o", "l", "d", "e", "r", ".", "t", "y", "p", "i", "c", "o", "d", "e", ".", "c", "o", "m", "/", "u", "s", "e", "r", "s">>
TimeoutMessage ==
    <<"R", "e", "q", "u", "e", "s", "t", " ", "t", "i", "m", "e", "o", "u", "t", " ", "-", " ", "p", "l", "e", "a", "s", "e", " ", "t", "r", "y", " ", "a", "g", "a", "i", "n">>
ServerErrorPrefix ==
    <<"S", "e", "r", "v", "e", "r", " ", "e", "r", "r", "o", "r", ":", " ">>
NetworkMessage ==
    <<"N", "e", "t", "w", "o", "r", "k", " ", "e", "r", "r", "o", "r", " ", "-", " ", "p", "l", "e", "a", "s", "e", " ", "c", "h", "e", "c", "k", " ", "y", "o", "u", "r", " ", "c", "o", "n", "n", "e", "c", "t", "i", "o", "n">>
DefaultMessage ==
    <<"F", "a", "i", "l", "e", "d", " ", "t", "o", " ", "f", "e", "t", "c", "h", " ", "s", "t", "u", "d", "e", "n", "t", "s">>
UnexpectedMessage ==
    <<"A", "n", " ", "u", "n", "e", "x", "p", "e", "c", "t", "e", "d", " ", "e", "r", "r", "o", "r", " ", "o", "c", "c", "u", "r", "r", "e", "d">>
EmailSuffix ==
    <<"@", "s", "t", "u", "d", "e", "n", "t", ".", "e", "d", "u", ".", "p", "h">>
WebsiteSuffix ==
    <<".", "e", "d", "u", ".", "p", "h">>
PhonePrefix ==
    <<"+", "6", "3", " ">>
DefaultFirstName ==
    <<"s", "t", "u", "d", "e", "n", "t">>
DefaultLastName ==
    <<"u", "s", "e", "r">>
ECONNABORTED ==
    <<"E", "C", "O", "N", "N", "A", "B", "O", "R", "T", "E", "D">>

\* Philippine course names
courses ==
    << <<"B", "S", " ", "C", "o", "m", "p", "u", "t", "e", "r", " ", "S", "c", "i", "e", "n", "c", "e">>,
       <<"B", "S", " ", "I", "n", "f", "o", "r", "m", "a", "t", "i", "o", "n", " ", "T", "e", "c", "h", "n", "o", "l", "o", "g", "y">>,
       <<"B", "S", " ", "B", "u", "s", "i", "n", "e", "s", "s", " ", "A", "d", "m", "i", "n", "i", "s", "t", "r", "a", "t", "i", "o", "n">>,
       <<"B", "S", " ", "A", "c", "c", "o", "u", "n", "t", "a", "n", "c", "y">>,
       <<"B", "S", " ", "N", "u", "r", "s", "i", "n", "g">>,
       <<"B", "S", " ", "P", "s", "y", "c", "h", "o", "l", "o", "g", "y">>,
       <<"B", "S", " ", "C", "i", "v", "i", "l", " ", "E", "n", "g", "i", "n", "e", "e", "r", "i", "n", "g">>,
       <<"B", "S", " ", "E", "l", "e", "c", "t", "r", "i", "c", "a", "l", " ", "E", "n", "g", "i", "n", "e", "e", "r", "i", "n", "g">>,
       <<"B", "S", " ", "A", "r", "c", "h", "i", "t", "e", "c", "t", "u", "r", "e">>,
       <<"A", "B", " ", "C", "o", "m", "m", "u", "n", "i", "c", "a", "t", "i", "o", "n">> >>

\* Request timeout of the Axios instance, in milliseconds
timeout == 10000

\* ------------------------------------------------------------ Fetch Client
\* One element of response.data. name and phone are JavaScript values: a
\* payload that is not RawUser-shaped may lack them.
RawUser(id, name, email, phone, company) ==
    [id |-> id, name |-> name, email |-> email, phone |-> phone, company |-> company]

phoneDigits(user) == slice(StripNonDigits(user.phone.v), 0, 10)

\* the last group cut to three digits: slice(6, 9)
formattedPhoneShortLast(user) ==
    PhonePrefix \o slice(phoneDigits(user), 0, 3) \o <<" ">>
                \o slice(phoneDigits(user), 3, 6) \o <<" ">>
                \o slice(phoneDigits(user), 6, 9)

formattedPhone(user) ==
    PhonePrefix \o slice(phoneDigits(user), 0, 3) \o <<" ">>
                \o slice(phoneDigits(user), 3, 6) \o <<" ">>
                \o slice(phoneDigits(user), 6, 10)

\* the name split without toLowerCase
namePartsCaseKept(user) == split(user.name.v)

nameParts(user) == split(toLowerCase(user.name.v))

\* nameParts[0] without the || 'student'
firstNameNoFallback(user) == nameParts(user)[1]

firstName(user) == OrElse(Str(nameParts(user)[1]), Str(DefaultFirstName)).v

\* 'user' whenever the name has fewer than two parts
lastNameUserIfSingle(user) ==
    IF Len(nameParts(user)) < 2 THEN DefaultLastName
    ELSE OrElse(Str(nameParts(user)[Len(nameParts(user))]), Str(DefaultLastName)).v

\* the last non-empty part, 'user' only when there is none
lastNameLastToken(user) ==
    LET NonEmpty(part) == part # <<>>
        tokens == SelectSeq(nameParts(user), NonEmpty)
    IN  IF tokens = <<>> THEN DefaultLastName ELSE tokens[Len(tokens)]

lastName(user) ==
    OrElse(Str(nameParts(user)[Len(nameParts(user))]), Str(DefaultLastName)).v

studentEmail(user) == firstName(user) \o <<".">> \o lastName(user) \o EmailSuffix

phWebsite(user) == firstName(user) \o <<"-">> \o lastName(user) \o WebsiteSuffix

\* (index % 4).toString(), without the + 1
yearLevelZeroBased(index) == NatToStr(index % 4)

yearLevel(index) == NatToStr((index % 4) + 1)

\* id taken from the position instead of user.id
StudentIdFromIndex(user, index) ==
    [id |-> index + 1,
     name |-> user.name.v,
     course |-> courses[(index % Len(courses)) + 1],
     year |-> yearLevel(index),
     email |-> studentEmail(user),
     phone |-> formattedPhone(user),
     website |-> phWebsite(user)]

\* The callback of response.data.map, index zero-based
Student(user, index) ==
    [id |-> user.id,
     name |-> user.name.v,
     course |-> courses[(index % Len(courses)) + 1],
     year |-> yearLevel(index),
     email |-> studentEmail(user),
     phone |-> formattedPhone(user),
     website |-> phWebsite(user)]

\* user.phone.replace / user.name.toLowerCase throw a TypeError when the
\* property is not a string
UserThrows(user) == user.phone.t # "string" \/ user.name.t # "string"

\* response.data.map(...) throws when data is not an array or a callback throws
MapThrows(data) ==
    \/ data.t # "array"
    \/ \E k \in 1..Len(data.v) : UserThrows(data.v[k])

\* Outcomes of axiosInstance.get: a response, or a rejection with an error
Response(data) == [kind |-> "response", data |-> data]
Rejection(err) == [kind |-> "rejection", err |-> err]
ErrorObject(code, response, request) ==
    [code |-> code, response |-> response, request |-> request]
HttpResponse(status) == [t |-> "object", status |-> status]

\* A TypeError thrown inside the try block: no code, response or request
TypeError == ErrorObject(Undefined, Undefined, Undefined)

Failure(message) == [t |-> "object", error |-> Bool(TRUE), message |-> Str(message)]

\* The chain without its ECONNABORTED branch
errorMessageNoTimeout(err) ==
    IF Truthy(err.response)
    THEN ServerErrorPrefix \o NatToStr(err.response.status)
    ELSE IF Truthy(err.request) THEN NetworkMessage
    ELSE DefaultMessage

\* The chain with the request tested before the response
errorMessageRequestFirst(err) ==
    IF err.code = Str(ECONNABORTED) THEN TimeoutMessage
    ELSE IF Truthy(err.request) THEN NetworkMessage
    ELSE IF Truthy(err.response)
         THEN ServerErrorPrefix \o NatToStr(err.response.status)
    ELSE DefaultMessage

\* The chain falling back to an empty message
errorMessageEmptyDefault(err) ==
    IF err.code = Str(ECONNABORTED) THEN TimeoutMessage
    ELSE IF Truthy(err.response)
         THEN ServerErrorPrefix \o NatToStr(err.response.status)
    ELSE IF Truthy(err.request) THEN NetworkMessage
    ELSE <<>>

\* The catch block: the if / else if chain choosing errorMessage
errorMessage(err) ==
    IF err.code = Str(ECONNABORTED) THEN TimeoutMessage
    ELSE IF Truthy(err.response)
         THEN ServerErrorPrefix \o NatToStr(err.response.status)
    ELSE IF Truthy(err.request) THEN NetworkMessage
    ELSE DefaultMessage

\* How a block completes: it returns a value or throws an error
Return(value) == [kind |-> "return", value |-> value]
Throw(err) == [kind |-> "throw", err |-> err]

RECURSIVE MapGood(_, _)
\* The records that transform, each with its own try / catch inside the map
MapGood(users, index) ==
    IF users = <<>> THEN <<>>
    ELSE IF UserThrows(Head(users)) THEN MapGood(Tail(users), index + 1)
    ELSE <<Student(Head(users), index)>> \o MapGood(Tail(users), index + 1)

\* The try block with records that fail to transform skipped
tryBlockSkipsBad(outcome) ==
    IF outcome.kind = "rejection" THEN Throw(outcome.err)
    ELSE IF outcome.data.t # "array" THEN Throw(TypeError)
    ELSE Return(Arr(MapGood(outcome.data.v, 0)))

\* The try block: the awaited GET rejects, or the map over response.data
\* throws, or the students are returned
tryBlock(outcome) ==
    IF outcome.kind = "rejection" THEN Throw(outcome.err)
    ELSE IF MapThrows(outcome.data) THEN Throw(TypeError)
    ELSE Return(Arr([k \in 1..Len(outcome.data.v) |-> Student(outcome.data.v[k], k - 1)]))

\* The catch block
catchBlock(err) == Return(Failure(errorMessage(err)))

\* fetchStudents without its try / catch
fetchStudentsNoCatch(outcome) == tryBlock(outcome)

\* async fetchStudents(): how the call completes, given the outcome of its GET
fetchStudentsCompletion(outcome) ==
    IF tryBlock(outcome).kind = "throw"
    THEN catchBlock(tryBlock(outcome).err)
    ELSE tryBlock(outcome)

\* The value fetchStudents resolves to, given the outcome of its one GET
fetchStudents(outcome) == fetchStudentsCompletion(outcome).value

\* The request fetchStudents sends
GetRequest == [method |-> "GET", url |-> Endpoint, timeout |-> timeout]

\* ------------------------------------------------------- explored inputs
LeanneName ==
    <<"L", "e", "a", "n", "n", "e", " ", "G", "r", "a", "h", "a", "m">>
LeannePhone ==
    <<"1", "-", "7", "7", "0", "-", "7", "3", "6", "-", "8", "0", "3", "1", " ", "x", "5", "6", "4", "4", "2">>
LeanneEmail ==
    <<"S", "i", "n", "c", "e", "r", "e", "@", "a", "p", "r", "i", "l", ".", "b", "i", "z">>
LeanneCompany ==
    <<"R", "o", "m", "a", "g", "u", "e", "r", "a", "-", "C", "r", "o", "n", "a">>
ErvinName ==
    <<"E", "r", "v", "i", "n", " ", "H", "o", "w", "e", "l", "l">>
ErvinPhone ==
    <<"0", "1", "0", "-", "6", "9", "2", "-", "6", "5", "9", "3", " ", "x", "0", "9", "1", "2", "5">>
ErvinEmail ==
    <<"S", "h", "a", "n", "n", "a", "@", "m", "e", "l", "i", "s", "s", "a", ".", "t", "v">>
ErvinCompany ==
    <<"D", "e", "c", "k", "o", "w", "-", "C", "r", "i", "s", "t">>
StubMessage ==
    <<"N", "e", "t", "w", "o", "r", "k", " ", "e", "r", "r", "o", "r">>

Leanne == RawUser(1, Str(LeanneName), Str(LeanneEmail), Str(LeannePhone), Str(LeanneCompany))
Ervin == RawUser(2, Str(ErvinName), Str(ErvinEmail), Str(ErvinPhone), Str(ErvinCompany))
\* a record without a phone
NoPhone == RawUser(3, Str(ErvinName), Str(ErvinEmail), Undefined, Str(ErvinCompany))

Payloads ==
    { Arr(<<>>), Arr(<<Leanne>>), Arr(<<Leanne, Ervin>>), Arr(<<Leanne, NoPhone>>) }

\* a timeout, a 404 response, a request without a response, anything else
Errors ==
    { ErrorObject(Str(ECONNABORTED), Undefined, Undefined),
      ErrorObject(Undefined, HttpResponse(404), Undefined),
      ErrorObject(Undefined, Undefined, Obj),
      ErrorObject(Undefined, Undefined, Undefined) }

HttpOutcomes == {Response(d) : d \in Payloads} \cup {Rejection(e) : e \in Errors}

\* ------------------------------------- inputs of a direct fetchStudents call
\* Names: every string of at most MaxNameLen characters over an upper-case
\* letter, a lower-case letter and the space
NameAlphabet == {"A", "b", " "}
Names == UNION {[1..n -> NameAlphabet] : n \in 0..MaxNameLen}

TenDigitPhone ==
    <<"(", "0", "2", ")", " ", "8", "1", "2", "3", "-", "4", "5", "6", "7">>
ShortPhone ==
    <<"5", "5", "5", "-", "0", "1", "9", "9">>
NoDigitPhone ==
    <<"n", "/", "a">>
CherName ==
    <<"C", "h", "e", "r">>
ERR_NETWORK ==
    <<"E", "R", "R", "_", "N", "E", "T", "W", "O", "R", "K">>

\* Phones with sixteen, fifteen, ten, seven and no digits, and the empty one
Phones == {LeannePhone, ErvinPhone, TenDigitPhone, ShortPhone, NoDigitPhone, <<>>}

Cher == RawUser(7, Str(CherName), Str(LeanneEmail), Str(TenDigitPhone), Str(ErvinCompany))
\* a record without a name
NoName == RawUser(4, Undefined, Str(LeanneEmail), Str(LeannePhone), Str(LeanneCompany))

BaseUsers == <<Leanne, Ervin, Cher>>

\* The payload of n records that cycles through BaseUsers from position shift
Rotation(n, shift) ==
    [k \in 1..n |-> BaseUsers[((k - 1 + shift) % Len(BaseUsers)) + 1]]

SingleUserPayloads ==
    {Arr(<<RawUser(5, Str(name), Str(LeanneEmail), Str(phone), Str(LeanneCompany))>>) :
        name \in Names, phone \in Phones}

LongPayloads ==
    {Arr(Rotation(n, shift)) : n \in 0..MaxUsers, shift \in 0..(Len(BaseUsers) - 1)}

\* Payloads that are not RawUser-shaped: one record without a phone or without
\* a name at position b, or no array at all
BrokenPayloads ==
    UNION {{Arr([Rotation(n, 0) EXCEPT ![b] = bad]) : b \in 1..n, bad \in {NoPhone, NoName}} :
              n \in 1..MaxUsers}
    \cup {Null, Undefined, Obj}

\* Rejections: every combination of a code, a response and a request
RejectionErrors ==
    {ErrorObject(code, response, request) :
        code \in {Undefined, Str(ECONNABORTED), Str(ERR_NETWORK)},
        response \in {Undefined, HttpResponse(404), HttpResponse(500)},
        request \in {Undefined, Obj}}

FetchOutcomes ==
    {Response(d) : d \in SingleUserPayloads \cup LongPayloads \cup BrokenPayloads}
    \cup {Rejection(e) : e \in RejectionErrors}

\* What a test double of apiService.fetchStudents settles with
Fulfilled(value) == [kind |-> "fulfilled", value |-> value]
Rejected == [kind |-> "rejected"]
Pending == [kind |-> "pending"]

StubStudents == <<Student(Ervin, 2), Student(Leanne, 0)>>

StubSettlements ==
    { Fulfilled(Arr(<<>>)), Fulfilled(Arr(StubStudents)),
      Fulfilled(Failure(StubMessage)), Fulfilled(Failure(<<>>)),
      Fulfilled(Null), Fulfilled(Undefined), Rejected }

\* ------------------------------------------------------------------ router
routes ==
    << [path |-> "/", name |-> "Home", component |-> "HomePage"],
       [path |-> "/students", name |-> "Students", component |-> "StudentsPage"] >>

\* The router matches a pushed path against the route records
resolve(path) == CHOOSE r \in {routes[k] : k \in DOMAIN routes} : r.path = path

\* The root component's router view shows the component of the current route
RouterView(r) == r.component

\* -------------------------------------------------------- HomePage: template
\* The welcome message, the button, and the message under v-if="buttonClicked"
RenderHome(clicked) ==
    [ message |-> "Welcome to the Student Info App!",
      button |-> "Click Me!",
      clickedMessage |-> IF clicked THEN <<"Button was clicked!">> ELSE <<>> ]

\* ------------------------------------------------- StudentsPage: template
\* st is the reactive state of one instance: [students, loading, error]

\* v-if="loading"
ShowLoading(st) == st.loading

\* v-else-if="error"
ShowError(st) == ~ShowLoading(st) /\ Truthy(st.error)

\* v-if="!error" in place of v-else
ShowListUnlessError(st) == ~Truthy(st.error)

\* v-else
ShowList(st) == ~ShowLoading(st) /\ ~ShowError(st)

\* :year bound to student.course
StudentPropsYearFromCourse(student) ==
    [name |-> student.name, course |-> student.course, year |-> student.course,
     email |-> student.email, phone |-> student.phone, website |-> student.website]

\* The props bound on one StudentComponent of the v-for
StudentProps(student) ==
    [name |-> student.name, course |-> student.course, year |-> student.year,
     email |-> student.email, phone |-> student.phone, website |-> student.website]

\* The rendered page: which regions exist, the count of the subtitle, the
\* text of the error region and the StudentComponents of the list, in order
Render(st) ==
    [regions |-> {r \in {"loading", "error", "students-list"} :
                     \/ r = "loading" /\ ShowLoading(st)
                     \/ r = "error" /\ ShowError(st)
                     \/ r = "students-list" /\ ShowList(st)},
     subtitle |-> Len(st.students.v),
     errorText |-> IF ShowError(st) THEN st.error.v ELSE <<>>,
     items |-> IF ShowList(st)
               THEN [k \in 1..Len(st.students.v) |-> StudentProps(st.students.v[k])]
               ELSE <<>>]

\* Nothing of the page is in the document
NoDom == [regions |-> {}, subtitle |-> 0, errorText |-> <<>>, items |-> <<>>]

\* --------------------------------------------------- StudentsPage: script
\* const students = ref([]); const loading = ref(false); const error = ref(null)
SetupState == [students |-> Arr(<<>>), loading |-> FALSE, error |-> Null]

\* onMounted without loading.value = true
BeforeAwaitNoLoading(st) == [st EXCEPT !.error = Null]

\* onMounted, up to the await
BeforeAwait(st) == [st EXCEPT !.loading = TRUE, !.error = Null]

\* result.error: reading a property of null or undefined throws; an array
\* has no such property
ReadThrows(result) == result.t \in {"null", "undefined"}
ErrorProp(result) == IF result.t = "object" THEN result.error ELSE Undefined

\* error.value set to the fixed text instead of result.message
AfterAwaitFixedMessage(st, s) ==
    LET tried ==
            IF s.kind = "rejected" \/ ReadThrows(s.value)
            THEN [st EXCEPT !.error = Str(UnexpectedMessage)]
            ELSE IF Truthy(ErrorProp(s.value))
                 THEN [st EXCEPT !.error = Str(UnexpectedMessage)]
                 ELSE [st EXCEPT !.students = s.value]
    IN  [tried EXCEPT !.loading = FALSE]

\* loading.value = false at the end of the try block instead of in finally
AfterAwaitNoFinally(st, s) ==
    IF s.kind = "rejected" \/ ReadThrows(s.value)
    THEN [st EXCEPT !.error = Str(UnexpectedMessage)]
    ELSE IF Truthy(ErrorProp(s.value))
         THEN [st EXCEPT !.error = s.value.message, !.loading = FALSE]
         ELSE [st EXCEPT !.students = s.value, !.loading = FALSE]

\* try / finally without the catch block: a throw leaves error untouched
AfterAwaitNoCatch(st, s) ==
    LET tried ==
            IF s.kind = "rejected" \/ ReadThrows(s.value)
            THEN st
            ELSE IF Truthy(ErrorProp(s.value))
                 THEN [st EXCEPT !.error = s.value.message]
                 ELSE [st EXCEPT !.students = s.value]
    IN  [tried EXCEPT !.loading = FALSE]

\* Sample students are shown when the call fails
AfterAwaitFallbackData(st, s) ==
    LET tried ==
            IF s.kind = "rejected" \/ ReadThrows(s.value)
            THEN [st EXCEPT !.error = Str(UnexpectedMessage)]
            ELSE IF Truthy(ErrorProp(s.value))
                 THEN [st EXCEPT !.error = s.value.message,
                                 !.students = Arr(StubStudents)]
                 ELSE [st EXCEPT !.students = s.value]
    IN  [tried EXCEPT !.loading = FALSE]

\* onMounted, from the settlement of the awaited call: try / catch / finally
AfterAwait(st, s) ==
    LET tried ==
            IF s.kind = "rejected" \/ ReadThrows(s.value)
            THEN [st EXCEPT !.error = Str(UnexpectedMessage)]
            ELSE IF Truthy(ErrorProp(s.value))
                 THEN [st EXCEPT !.error = s.value.message]
                 ELSE [st EXCEPT !.students = s.value]
    IN  [tried EXCEPT !.loading = FALSE]

\* ------------------------------------------- React student card (Student.tsx)
Fn == [t |-> "function"]

JohnEmail ==
    <<"j", "o", "h", "n", ".", "d", "o", "e", "@", "e", "x", "a", "m", "p", "l", "e", ".", "c", "o", "m">>

\* The student props rendered: ids, the two names and courses of the test
\* fixtures, years 1 to 4, with and without the optional email
CardStudents ==
    { [id |-> id, name |-> nc[1], course |-> nc[2], year |-> year, email |-> email] :
        id \in 1..3,
        nc \in {<<"John Doe", "Computer Science">>, <<"Jane Smith", "Mathematics">>},
        year \in 1..4,
        email \in {Undefined, Str(JohnEmail)} }

\* The optional callback prop
OnExpandProps == {Undefined, Fn}

\* No card has been rendered
NoCard == [stage |-> "none"]

\* The card's JSX for one value of the expanded state
RenderCard(student, expanded) ==
    [ testid |-> student.id,
      name |-> student.name,
      course |-> student.course,
      year |-> student.year,
      buttonClass |-> {"expand-button", IF expanded THEN "expanded" ELSE "collapsed"},
      ariaExpanded |-> expanded,
      ariaLabel |-> <<IF expanded THEN "Collapse" ELSE "Expand", "details for", student.name>>,
      symbol |-> IF expanded THEN "U+2212" ELSE "+",   \* the minus sign
      expandedContent |->
          IF expanded
          THEN << [ id |-> student.id,
                    email |-> IF Truthy(student.email) THEN <<student.email.v>> ELSE <<>>,
                    year |-> student.year,
                    course |-> student.course ] >>
          ELSE <<>> ]

\* useState(false) and the first render
FirstRender(student, onExpand) ==
    [ stage |-> "rendered", student |-> student, onExpand |-> onExpand,
      expanded |-> FALSE, clicked |-> 0, expandCalls |-> <<>>, thrown |-> FALSE,
      dom |-> RenderCard(student, FALSE) ]

\* Calling the prop: a value that is not a function throws a TypeError
CallOnExpand(c) ==
    IF c.onExpand.t = "function"
    THEN [c EXCEPT !.expandCalls = Append(@, c.student.id)]
    ELSE [c EXCEPT !.thrown = TRUE]

\* The callback is told only when the card opens
handleToggleExpandOpenOnly(c) ==
    LET newExpanded == ~c.expanded
        toggled == [c EXCEPT !.expanded = newExpanded]
    IN  IF Truthy(c.onExpand) /\ newExpanded THEN CallOnExpand(toggled) ELSE toggled

\* The button only ever opens the card
handleToggleExpandOpens(c) ==
    LET newExpanded == TRUE
        toggled == [c EXCEPT !.expanded = newExpanded]
    IN  IF Truthy(c.onExpand) THEN CallOnExpand(toggled) ELSE toggled

\* handleToggleExpand: setExpanded(!expanded), then the optional callback
handleToggleExpand(c) ==
    LET newExpanded == ~c.expanded
        toggled == [c EXCEPT !.expanded = newExpanded]
    IN  IF Truthy(c.onExpand) THEN CallOnExpand(toggled) ELSE toggled

\* ------------------------------------------------------------------- state
VARIABLES
    route,          \* the current route record
    buttonClicked,  \* HomePage: the clicked flag of the mounted home page
    clicks,         \* HomePage: clicks on the button since it was mounted
    home,           \* HomePage: the rendered page, NoDom when not mounted
    target,         \* the path of the last router.push
    pc,             \* per StudentsPage instance: none, created, awaiting, done
    mounted,        \* per instance: the component is in the document
    students,       \* per instance: the ref students
    loading,        \* per instance: the ref loading
    error,          \* per instance: the ref error
    settled,        \* per instance: what its fetchStudents call settled with
    calls,          \* per instance: number of fetchStudents calls made
    requests,       \* per instance: the requests its calls have sent
    dom,            \* per instance: the rendered page
    call,           \* a direct call of apiService.fetchStudents: its stage,
                    \* the requests sent, the outcome of the GET, the completion
    card            \* the React student card: props, state, rendered button

viewVars == <<route, buttonClicked, clicks, home, target, pc, mounted, students,
              loading, error, settled, calls, requests, dom>>

vars == <<route, buttonClicked, clicks, home, target, pc, mounted, students,
          loading, error, settled, calls, requests, dom, call, card>>

\* No direct call has been made
IdleCall == [stage |-> "idle", sent |-> <<>>]

Instances == 1..MaxMounts

State(i) == [students |-> students[i], loading |-> loading[i], error |-> error[i]]

\* Writes the refs of instance i and re-renders it if it is in the document
Store(i, st, inDocument) ==
    /\ students' = [students EXCEPT ![i] = st.students]
    /\ loading' = [loading EXCEPT ![i] = st.loading]
    /\ error' = [error EXCEPT ![i] = st.error]
    /\ dom' = [dom EXCEPT ![i] = IF inDocument THEN Render(st) ELSE NoDom]

\* No mount is between its setup and its mounted hook (both run in one task)
Quiescent == \A i \in Instances : pc[i] # "created"

InFlight == {i \in Instances : pc[i] = "awaiting"}

Init ==
    /\ route = routes[1]
    /\ buttonClicked = FALSE
    /\ clicks = 0
    /\ home = RenderHome(FALSE)
    /\ target = "/"
    /\ pc = [i \in Instances |-> "none"]
    /\ mounted = [i \in Instances |-> FALSE]
    /\ students = [i \in Instances |-> SetupState.students]
    /\ loading = [i \in Instances |-> SetupState.loading]
    /\ error = [i \in Instances |-> SetupState.error]
    /\ settled = [i \in Instances |-> Pending]
    /\ calls = [i \in Instances |-> 0]
    /\ requests = [i \in Instances |-> <<>>]
    /\ dom = [i \in Instances |-> NoDom]
    /\ call = IdleCall
    /\ card = NoCard

\* The handler flips the flag on every click
handleClickToggle ==
    /\ route.path = "/"
    /\ Quiescent
    /\ clicks < MaxClicks
    /\ clicks' = clicks + 1
    /\ buttonClicked' = ~buttonClicked
    /\ home' = RenderHome(buttonClicked')
    /\ UNCHANGED <<route, target, pc, mounted, students, loading, error, settled,
                   calls, requests, dom, call, card>>

\* HomePage: a click on the button runs handleClick and the page re-renders
handleClick ==
    /\ route.path = "/"
    /\ Quiescent
    /\ clicks < MaxClicks
    /\ clicks' = clicks + 1
    /\ buttonClicked' = TRUE
    /\ home' = RenderHome(buttonClicked')
    /\ UNCHANGED <<route, target, pc, mounted, students, loading, error, settled,
                   calls, requests, dom, call, card>>

\* The refs declared once for the module and shared by every instance
SetupShared(i) ==
    /\ route.path = "/"
    /\ pc[i] = "none"
    /\ \A j \in Instances : j < i => pc[j] # "none"
    /\ target' = "/students"
    /\ route' = resolve(target')
    /\ buttonClicked' = FALSE
    /\ clicks' = 0
    /\ home' = NoDom
    /\ pc' = [pc EXCEPT ![i] = "created"]
    /\ mounted' = [mounted EXCEPT ![i] = TRUE]
    /\ Store(i, IF i > 1 THEN State(i - 1) ELSE SetupState, TRUE)
    /\ UNCHANGED <<settled, calls, requests, call, card>>

\* Navigation to /students: the home page is removed, a new StudentsPage
\* instance runs its setup and is rendered for the first time
Setup(i) ==
    /\ route.path = "/"
    /\ pc[i] = "none"
    /\ \A j \in Instances : j < i => pc[j] # "none"
    /\ target' = "/students"
    /\ route' = resolve(target')
    /\ buttonClicked' = FALSE
    /\ clicks' = 0
    /\ home' = NoDom
    /\ pc' = [pc EXCEPT ![i] = "created"]
    /\ mounted' = [mounted EXCEPT ![i] = TRUE]
    /\ Store(i, SetupState, TRUE)
    /\ UNCHANGED <<settled, calls, requests, call, card>>

\* The onMounted callback up to its await: one fetchStudents call, which
\* sends one GET
onMounted(i) ==
    /\ pc[i] = "created"
    /\ pc' = [pc EXCEPT ![i] = "awaiting"]
    /\ calls' = [calls EXCEPT ![i] = @ + 1]
    /\ requests' = [requests EXCEPT ![i] = Append(@, GetRequest)]
    /\ Store(i, BeforeAwait(State(i)), mounted[i])
    /\ UNCHANGED <<route, buttonClicked, clicks, home, target, mounted, settled, call, card>>

\* A failed call is retried once: a second GET, the callback waits again
ResumeRetry(i, s) ==
    /\ pc[i] = "awaiting"
    /\ Quiescent
    /\ LET again == /\ s.kind = "fulfilled"
                    /\ s.value.t = "object"
                    /\ Len(requests[i]) < 2
       IN  /\ pc' = [pc EXCEPT ![i] = IF again THEN "awaiting" ELSE "done"]
           /\ requests' = [requests EXCEPT ![i] = IF again THEN Append(@, GetRequest) ELSE @]
    /\ settled' = [settled EXCEPT ![i] = s]
    /\ Store(i, AfterAwait(State(i), s), mounted[i])
    /\ UNCHANGED <<route, buttonClicked, clicks, home, target, mounted, calls, call, card>>

\* A background refresh: the callback applies the result and polls once more
ResumeRefresh(i, s) ==
    /\ pc[i] = "awaiting"
    /\ Quiescent
    /\ pc' = [pc EXCEPT ![i] = IF calls[i] < 2 THEN "awaiting" ELSE "done"]
    /\ calls' = [calls EXCEPT ![i] = IF @ < 2 THEN @ + 1 ELSE @]
    /\ settled' = [settled EXCEPT ![i] = s]
    /\ Store(i, AfterAwait(State(i), s), mounted[i])
    /\ UNCHANGED <<route, buttonClicked, clicks, home, target, mounted, requests, call, card>>

\* The refs live in the module: the continuation writes the page on screen
ResumeShared(i, s) ==
    /\ pc[i] = "awaiting"
    /\ Quiescent
    /\ pc' = [pc EXCEPT ![i] = "done"]
    /\ settled' = [settled EXCEPT ![i] = s]
    /\ LET live == {j \in Instances : mounted[j]}
           m == IF live = {} THEN i ELSE CHOOSE j \in live : TRUE
       IN  Store(m, AfterAwait(State(m), s), mounted[m])
    /\ UNCHANGED <<route, buttonClicked, clicks, home, target, mounted, calls, requests, call, card>>

\* The awaited call settles with s and the callback runs to its end
Resume(i, s) ==
    /\ pc[i] = "awaiting"
    /\ Quiescent
    /\ pc' = [pc EXCEPT ![i] = "done"]
    /\ settled' = [settled EXCEPT ![i] = s]
    /\ Store(i, AfterAwait(State(i), s), mounted[i])
    /\ UNCHANGED <<route, buttonClicked, clicks, home, target, mounted, calls, requests, call, card>>

\* The GET of instance i completes and fetchStudents resolves
Settle(i) == \E outcome \in HttpOutcomes : Resume(i, Fulfilled(fetchStudents(outcome)))

\* The test double of fetchStudents settles
SettleStub(i) == \E s \in StubSettlements : Resume(i, s)

\* The students page is kept in the document when the route changes
NavigateHomeKeepAlive ==
    /\ route.path = "/students"
    /\ Quiescent
    /\ target' = "/"
    /\ route' = resolve(target')
    /\ buttonClicked' = FALSE
    /\ clicks' = 0
    /\ home' = RenderHome(buttonClicked')
    /\ UNCHANGED <<mounted, dom, pc, students, loading, error, settled, calls,
                   requests, call, card>>

\* Navigation to /: the StudentsPage instance is unmounted (its pending call
\* is not cancelled) and a new HomePage is created
NavigateHome ==
    /\ route.path = "/students"
    /\ Quiescent
    /\ target' = "/"
    /\ route' = resolve(target')
    /\ buttonClicked' = FALSE
    /\ clicks' = 0
    /\ home' = RenderHome(buttonClicked')
    /\ mounted' = [i \in Instances |-> FALSE]
    /\ dom' = [i \in Instances |-> NoDom]
    /\ UNCHANGED <<pc, students, loading, error, settled, calls, requests, call, card>>

\* The page components that are in the document
Rendered ==
    (IF home # NoDom THEN {"HomePage"} ELSE {})
        \cup (IF \E i \in Instances : mounted[i] THEN {"StudentsPage"} ELSE {})

Next ==
    \/ handleClick
    \/ NavigateHome
    \/ \E i \in Instances : Setup(i)
    \/ \E i \in Instances : onMounted(i)
    \/ \E i \in Instances : Settle(i)

Spec == Init /\ [][Next]_vars

\* The same application with apiService.fetchStudents replaced by a test double
NextStub ==
    \/ handleClick
    \/ NavigateHome
    \/ \E i \in Instances : Setup(i)
    \/ \E i \in Instances : onMounted(i)
    \/ \E i \in Instances : SettleStub(i)

SpecStub == Init /\ [][NextStub]_vars

\* ------------------------------------------- a direct call of fetchStudents
\* fetchStudents() is called: the Axios instance is created and the GET sent
callFetchStudents ==
    /\ call.stage = "idle"
    /\ call' = [stage |-> "awaiting", sent |-> Append(call.sent, GetRequest)]
    /\ UNCHANGED <<viewVars, card>>

\* The GET completes with outcome and the call runs to its end
getSettles(outcome) ==
    /\ call.stage = "awaiting"
    /\ call' = [stage |-> "settled", sent |-> call.sent, outcome |-> outcome,
                completion |-> fetchStudentsCompletion(outcome)]
    /\ UNCHANGED <<viewVars, card>>

NextFetch ==
    \/ callFetchStudents
    \/ \E outcome \in FetchOutcomes : getSettles(outcome)

SpecFetch == Init /\ [][NextFetch]_vars

\* ------------------------------------------------- the React student card
\* render(<StudentComponent student={student} onExpand={onExpand} />)
renderStudent(student, onExpand) ==
    /\ card.stage = "none"
    /\ card' = FirstRender(student, onExpand)
    /\ UNCHANGED <<viewVars, call>>

\* A click on the expand button: the handler runs and React re-renders the
\* card with the new state before the next event is dispatched
clickExpand ==
    /\ card.stage = "rendered"
    /\ card.clicked < MaxClicks
    /\ LET c == handleToggleExpand(card)
       IN  card' = [c EXCEPT !.clicked = @ + 1,
                             !.dom = RenderCard(c.student, c.expanded)]
    /\ UNCHANGED <<viewVars, call>>

NextCard ==
    \/ \E student \in CardStudents, onExpand \in OnExpandProps :
          renderStudent(student, onExpand)
    \/ clickExpand

SpecCard == Init /\ [][NextCard]_vars

\* ------------------------------------------------------------ properties
Hooked(i) == pc[i] \in {"awaiting", "done"}
ResolvedToList(i) ==
    pc[i] = "done" /\ settled[i].kind = "fulfilled" /\ settled[i].value.t = "array"
ResolvedToFailure(i) ==
    pc[i] = "done" /\ settled[i].kind = "fulfilled" /\ settled[i].value.t = "object"

\* C1: a StudentsPage that is in the document renders exactly one of the
\* loading indicator, the error region and the students-list container.
C1_ExactlyOneRegion ==
    \A i \in Instances : mounted[i] => Cardinality(dom[i].regions) = 1

C1_Witness ==
    \E i, j, k \in Instances :
        /\ i < j /\ j < k
        /\ pc[i] = "done" /\ pc[j] = "done" /\ mounted[k]
        /\ Truthy(error[i]) /\ ~Truthy(error[j]) /\ dom[k].regions = {"loading"}

\* C2 as stated: from its creation until its fetchStudents call settles, a
\* view in the document shows the loading indicator and nothing else.
C2_LoadingFromCreation ==
    \A i \in Instances :
        (mounted[i] /\ pc[i] \in {"created", "awaiting"})
            => dom[i].regions = {"loading"}

\* C2 amended: from the onMounted hook until the call settles the view shows
\* the loading indicator only and the loading flag is set; between setup and
\* the hook the flag is false and the empty students-list container is shown.
C2_LoadingFromHook ==
    \A i \in Instances :
        /\ (mounted[i] /\ pc[i] = "awaiting")
               => (loading[i] /\ dom[i].regions = {"loading"} /\ dom[i].items = <<>>)
        /\ (mounted[i] /\ pc[i] = "created")
               => (~loading[i] /\ dom[i].regions = {"students-list"} /\ dom[i].items = <<>>)

C2_Witness == \E i \in Instances : mounted[i] /\ pc[i] = "awaiting" /\ calls[i] = 1

\* C3: after fetchStudents resolved to a list of n students the refs hold that
\* list with loading false and no error, and a view in the document shows the
\* students-list container only, with n items in the order of the list, each
\* carrying the six display fields of its student.
C3_LoadedShowsList ==
    \A i \in Instances :
        ResolvedToList(i) =>
            LET list == settled[i].value.v
            IN  /\ students[i].v = list /\ ~loading[i] /\ error[i] = Null
                /\ mounted[i] =>
                      /\ dom[i].regions = {"students-list"}
                      /\ Len(dom[i].items) = Len(list)
                      /\ \A k \in 1..Len(list) :
                            /\ dom[i].items[k].name = list[k].name
                            /\ dom[i].items[k].course = list[k].course
                            /\ dom[i].items[k].year = list[k].year
                            /\ dom[i].items[k].email = list[k].email
                            /\ dom[i].items[k].phone = list[k].phone
                            /\ dom[i].items[k].website = list[k].website

C3_Witness ==
    \E i, j \in Instances :
        /\ ResolvedToList(i) /\ ~mounted[i] /\ Len(settled[i].value.v) = 0
        /\ ResolvedToList(j) /\ mounted[j] /\ Len(dom[j].items) = 2

\* C4 as stated: after fetchStudents resolved to Failure(message), for every
\* message, a view in the document shows the error region only, with that
\* message as its text.
C4_AnyFailureShowsError ==
    \A i \in Instances :
        (ResolvedToFailure(i) /\ mounted[i]) =>
            /\ dom[i].regions = {"error"}
            /\ dom[i].errorText = settled[i].value.message.v

\* C4 amended: the same for every non-empty message.
C4_NonEmptyFailureShowsError ==
    \A i \in Instances :
        (ResolvedToFailure(i) /\ settled[i].value.message.v # <<>>) =>
            /\ error[i] = settled[i].value.message /\ ~loading[i]
            /\ mounted[i] =>
                  /\ dom[i].regions = {"error"}
                  /\ dom[i].errorText = settled[i].value.message.v
                  /\ dom[i].items = <<>>

C4_Witness ==
    \E i \in Instances :
        /\ ResolvedToFailure(i) /\ mounted[i]
        /\ settled[i].value.message.v = StubMessage
        /\ dom[i].errorText = StubMessage

\* C5: once the mounted hook of an instance has run and its loading flag is
\* false again, no step sets the flag or changes its error or its students.
C5_Terminal ==
    [][\A i \in Instances :
          (Hooked(i) /\ ~loading[i]) =>
              (~loading'[i] /\ error'[i] = error[i] /\ students'[i] = students[i])]_vars

C5_Witness ==
    \E i, j \in Instances :
        i < j /\ pc[i] = "done" /\ Truthy(error[i]) /\ pc[j] = "done" /\ mounted[j]

\* C6: an instance whose mounted hook has run has made exactly one
\* fetchStudents call, which sent exactly one GET to the fixed endpoint,
\* whatever the call settled with; before the hook nothing is sent.
C6_OneCallOneGet ==
    \A i \in Instances :
        /\ Hooked(i) => (calls[i] = 1 /\ requests[i] = <<GetRequest>>)
        /\ ~Hooked(i) => (calls[i] = 0 /\ requests[i] = <<>>)

C6_Witness ==
    \E i, j \in Instances :
        /\ ResolvedToFailure(i) /\ settled[i].value.message.v = TimeoutMessage
        /\ ResolvedToFailure(j) /\ settled[j].value.message.v = NetworkMessage
        /\ calls[i] = 1 /\ calls[j] = 1

\* C7: after the call settled, by a value or by throwing, the loading flag is
\* false and no loading indicator is shown; while the call is pending a view
\* in the document shows the loading indicator.
C7_LoadingEndsWhenSettled ==
    \A i \in Instances :
        /\ pc[i] = "done" => (~loading[i] /\ "loading" \notin dom[i].regions)
        /\ (pc[i] = "awaiting" /\ mounted[i]) => "loading" \in dom[i].regions

C7_Witness ==
    \E i \in Instances :
        pc[i] = "done" /\ mounted[i] /\ settled[i] = Rejected /\ ~loading[i]

\* C8: after an instance was unmounted no step writes its loading, error or
\* students.
C8_DiscardAfterTeardown ==
    [][\A i \in Instances :
          (pc[i] # "none" /\ ~mounted[i]) =>
              (loading'[i] = loading[i] /\ error'[i] = error[i]
                  /\ students'[i] = students[i])]_vars

\* C9: at most one request is in flight.
C9_AtMostOneInFlight == Cardinality(InFlight) <= 1

\* C10: a new instance has no error and no items, whatever the earlier
\* instances ended in, and once its mounted hook has run it is loading and
\* has made its own call.
C10_FreshMountResets ==
    \A i \in Instances :
        /\ pc[i] \in {"created", "awaiting"}
               => (error[i] = Null /\ students[i] = Arr(<<>>))
        /\ pc[i] = "awaiting"
               => (loading[i] /\ calls[i] = 1 /\ Len(requests[i]) = 1)

C10_Witness ==
    \E i, j, k \in Instances :
        /\ i < j /\ j < k
        /\ pc[i] = "done" /\ Truthy(error[i])
        /\ ResolvedToList(j) /\ Len(students[j].v) > 0
        /\ pc[k] = "awaiting" /\ mounted[k]

\* ------------------------------------------- properties of fetchStudents
CallSettled == call.stage = "settled"
CallRejected == CallSettled /\ call.outcome.kind = "rejection"
CallResponded == CallSettled /\ call.outcome.kind = "response"
\* The call returned an array for a response whose data is an array
CallTransformed ==
    /\ CallResponded /\ call.outcome.data.t = "array"
    /\ call.completion.kind = "return" /\ call.completion.value.t = "array"
RawUsers == call.outcome.data.v
Students == call.completion.value.v

\* C11: a rejected GET makes fetchStudents return {error: true, message} with
\* the timeout message for code ECONNABORTED, otherwise "Server error: " and
\* the status of a received response, otherwise the network message for a
\* request without response, otherwise the default message.
C11_FailureClassified ==
    CallRejected =>
        LET err == call.outcome.err
            value == call.completion.value
        IN  /\ call.completion.kind = "return"
            /\ value.t = "object" /\ value.error = Bool(TRUE)
            /\ value.message.t = "string"
            /\ err.code = Str(ECONNABORTED) => value.message.v = TimeoutMessage
            /\ (err.code # Str(ECONNABORTED) /\ err.response # Undefined)
                  => value.message.v = ServerErrorPrefix \o NatToStr(err.response.status)
            /\ (err.code # Str(ECONNABORTED) /\ err.response = Undefined
                    /\ err.request # Undefined)
                  => value.message.v = NetworkMessage
            /\ (err.code # Str(ECONNABORTED) /\ err.response = Undefined
                    /\ err.request = Undefined)
                  => value.message.v = DefaultMessage

C11_Witness ==
    /\ CallRejected
    /\ call.outcome.err = ErrorObject(Str(ERR_NETWORK), HttpResponse(404), Obj)
    /\ call.completion.value.message.v =
           <<"S", "e", "r", "v", "e", "r", " ", "e", "r", "r", "o", "r", ":", " ", "4", "0", "4">>

C13_NoPartialSuccess ==
    (CallResponded /\ call.outcome.data.t = "array") =>
        /\ \/ /\ call.completion.value.t = "array"
              /\ Len(call.completion.value.v) = Len(RawUsers)
           \/ /\ call.completion.value.t = "object"
              /\ call.completion.value.error = Bool(TRUE)
        /\ (\E k \in 1..Len(RawUsers) :
                RawUsers[k].phone.t # "string" \/ RawUsers[k].name.t # "string")
              => /\ call.completion.value.t = "object"
                 /\ call.completion.value.error = Bool(TRUE)

C13_Witness ==
    /\ CallResponded /\ call.outcome.data.t = "array"
    /\ Len(RawUsers) = 3 /\ RawUsers[3] = NoPhone /\ RawUsers[1] = Leanne
    /\ call.completion.value.t = "object"

\* C14: the students are as many as the records and in their order: student k
\* has the id and the name of record k.
C14_OrderIdName ==
    CallTransformed =>
        /\ Len(Students) = Len(RawUsers)
        /\ \A k \in 1..Len(RawUsers) :
              /\ Students[k].id = RawUsers[k].id
              /\ Students[k].name = RawUsers[k].name.v

C14_Witness ==
    /\ CallTransformed /\ Len(Students) = 4
    /\ Students[1].id = 2 /\ Students[2].id = 7 /\ Students[3].id = 1
    /\ Students[4].name = ErvinName

Spaces(s) == {k \in 1..Len(s) : s[k] = " "}
\* the characters before the first space and those after the last space
FirstSegment(s) ==
    IF Spaces(s) = {} THEN s
    ELSE SubSeq(s, 1, (CHOOSE k \in Spaces(s) : \A j \in Spaces(s) : k <= j) - 1)
LastSegment(s) ==
    IF Spaces(s) = {} THEN s
    ELSE SubSeq(s, (CHOOSE k \in Spaces(s) : \A j \in Spaces(s) : k >= j) + 1, Len(s))
\* the number of tokens: positions where a run of non-space characters starts
WordCount(s) ==
    Cardinality({k \in 1..Len(s) : s[k] # " " /\ (k = 1 \/ s[k - 1] = " ")})
EndsWith(s, suffix) ==
    /\ Len(s) >= Len(suffix)
    /\ SubSeq(s, Len(s) - Len(suffix) + 1, Len(s)) = suffix
StartsWith(s, prefix) ==
    /\ Len(s) >= Len(prefix)
    /\ SubSeq(s, 1, Len(prefix)) = prefix
IsDecimal(c) == c \in {"0", "1", "2", "3", "4", "5", "6", "7", "8", "9"}
EmailOf(first, last) == first \o <<".">> \o last \o EmailSuffix
WebsiteOf(first, last) == first \o <<"-">> \o last \o WebsiteSuffix
StudentUserEmail ==
    <<"s", "t", "u", "d", "e", "n", "t", ".", "u", "s", "e", "r", "@", "s", "t", "u", "d", "e", "n", "t", ".", "e", "d", "u", ".", "p", "h">>
StudentUserWebsite ==
    <<"s", "t", "u", "d", "e", "n", "t", "-", "u", "s", "e", "r", ".", "e", "d", "u", ".", "p", "h">>
UserEmailEnd ==
    <<".", "u", "s", "e", "r", "@", "s", "t", "u", "d", "e", "n", "t", ".", "e", "d", "u", ".", "p", "h">>
UserWebsiteEnd ==
    <<"-", "u", "s", "e", "r", ".", "e", "d", "u", ".", "p", "h">>
StudentEmailStart ==
    <<"s", "t", "u", "d", "e", "n", "t", ".">>
CherEmail ==
    <<"c", "h", "e", "r", ".", "c", "h", "e", "r", "@", "s", "t", "u", "d", "e", "n", "t", ".", "e", "d", "u", ".", "p", "h">>
CherWebsite ==
    <<"c", "h", "e", "r", "-", "c", "h", "e", "r", ".", "e", "d", "u", ".", "p", "h">>
LeanneFormattedPhone ==
    <<"+", "6", "3", " ", "1", "7", "7", " ", "0", "7", "3", " ", "6", "8", "0", "3">>
ABEmail ==
    <<"a", ".", "b", "@", "s", "t", "u", "d", "e", "n", "t", ".", "e", "d", "u", ".", "p", "h">>

\* C16 as stated: for every non-empty name the email and the website are built
\* from the lower-cased first and last space-separated tokens of the name.
C16_EmailFromFirstAndLastToken ==
    CallTransformed =>
        \A k \in 1..Len(Students) :
            LET name == RawUsers[k].name.v
                first == toLowerCase(FirstSegment(name))
                last == toLowerCase(LastSegment(name))
            IN  name # <<>> =>
                    /\ Students[k].email = EmailOf(first, last)
                    /\ Students[k].website = WebsiteOf(first, last)

\* C16 amended: the same for every non-empty name that neither starts nor
\* ends with a space; for every name the email ends with "@student.edu.ph"
\* and the website with ".edu.ph".
C16_EmailFromTokensNoOuterSpace ==
    CallTransformed =>
        \A k \in 1..Len(Students) :
            LET name == RawUsers[k].name.v
                first == toLowerCase(FirstSegment(name))
                last == toLowerCase(LastSegment(name))
            IN  /\ (name # <<>> /\ name[1] # " " /\ name[Len(name)] # " ") =>
                       /\ Students[k].email = EmailOf(first, last)
                       /\ Students[k].website = WebsiteOf(first, last)
                /\ EndsWith(Students[k].email, EmailSuffix)
                /\ EndsWith(Students[k].website, WebsiteSuffix)

C16_Witness ==
    /\ CallTransformed /\ Len(Students) = 1
    /\ RawUsers[1].name.v = <<"A", " ", "b", " ", "b">>
    /\ Students[1].email = ABEmail

\* C17: a non-empty name without a space is used, lower-cased, as both the
\* first and the last name of the email and of the website.
C17_SingleTokenTwice ==
    CallTransformed =>
        \A k \in 1..Len(Students) :
            LET name == RawUsers[k].name.v
            IN  (name # <<>> /\ Spaces(name) = {}) =>
                    /\ Students[k].email = EmailOf(toLowerCase(name), toLowerCase(name))
                    /\ Students[k].website = WebsiteOf(toLowerCase(name), toLowerCase(name))

C17_Witness ==
    /\ CallTransformed /\ Len(Students) = 3
    /\ RawUsers[3].name.v = CherName
    /\ Students[3].email = CherEmail /\ Students[3].website = CherWebsite

\* C18 as stated: the first name is "student" when the name has no token, and
\* the last name is "user" when the name has one token or none.
C18_UserForOneOrNoToken ==
    CallTransformed =>
        \A k \in 1..Len(Students) :
            LET name == RawUsers[k].name.v
            IN  /\ WordCount(name) = 0 => StartsWith(Students[k].email, StudentEmailStart)
                /\ WordCount(name) <= 1 =>
                       /\ EndsWith(Students[k].email, UserEmailEnd)
                       /\ EndsWith(Students[k].website, UserWebsiteEnd)

\* C18 amended: the first name is "student" and the last name is "user" when
\* the name has no token (it is empty or all spaces); a name that is one token
\* without spaces has that token, not "user", as its last name.
C18_FallbacksForNoToken ==
    CallTransformed =>
        \A k \in 1..Len(Students) :
            LET name == RawUsers[k].name.v
            IN  /\ WordCount(name) = 0 =>
                       /\ Students[k].email = StudentUserEmail
                       /\ Students[k].website = StudentUserWebsite
                /\ (WordCount(name) = 1 /\ Spaces(name) = {}) =>
                       EndsWith(Students[k].email,
                                <<".">> \o toLowerCase(name) \o EmailSuffix)

C18_Witness ==
    /\ CallTransformed /\ Len(Students) = 1
    /\ RawUsers[1].name.v = <<" ", " ">>
    /\ Students[1].email = StudentUserEmail

\* C19: a phone with at least ten digits becomes "+63 ", digits 0-2, a space,
\* digits 3-5, a space and digits 6-9 of its digits; later digits are dropped.
C19_PhoneFormat ==
    CallTransformed =>
        \A k \in 1..Len(Students) :
            LET d == SelectSeq(RawUsers[k].phone.v, IsDecimal)
            IN  Len(d) >= 10 =>
                    Students[k].phone =
                        <<"+", "6", "3", " ", d[1], d[2], d[3], " ",
                          d[4], d[5], d[6], " ", d[7], d[8], d[9], d[10]>>

C19_Witness ==
    /\ CallTransformed /\ Len(Students) >= 1
    /\ RawUsers[1].phone.v = LeannePhone
    /\ Students[1].phone = LeanneFormattedPhone

\* C20: the course of a student is the email of its record and the year is
\* the company name of its record.
C20_CourseFromEmailYearFromCompany ==
    CallTransformed =>
        \A k \in 1..Len(Students) :
            /\ Students[k].course = RawUsers[k].email.v
            /\ Students[k].year = RawUsers[k].company.v

\* C21: on the home page the clicked flag is false before any click and true
\* after any number n >= 1 of clicks, and the "Button was clicked!" message
\* is rendered exactly when the flag is true: hidden at first, shown after
\* every click sequence of length >= 1.
C21_ClickedAfterFirstClick ==
    route.path = "/" =>
        /\ buttonClicked = (clicks >= 1)
        /\ home.clickedMessage =
              IF clicks >= 1 THEN <<"Button was clicked!">> ELSE <<>>

\* The button has been clicked more than once and the message is still shown
C21_Witness ==
    /\ route.path = "/"
    /\ clicks >= 2
    /\ buttonClicked
    /\ home.clickedMessage = <<"Button was clicked!">>

\* C22: the React student card starts collapsed and every click on its
\* expand button toggles it: after k clicks it is expanded iff k is odd, and
\* the button's class, aria-expanded, aria-label verb and symbol agree with
\* the expanded state.
C22_ExpandedIffOdd ==
    card.stage = "rendered" =>
        /\ card.expanded = (card.clicked % 2 = 1)
        /\ card.dom.buttonClass =
              {"expand-button", IF card.expanded THEN "expanded" ELSE "collapsed"}
        /\ card.dom.ariaExpanded = card.expanded
        /\ card.dom.ariaLabel[1] = IF card.expanded THEN "Collapse" ELSE "Expand"
        /\ card.dom.symbol = IF card.expanded THEN "U+2212" ELSE "+"

\* Three clicks: the card is open again after having been closed
C22_Witness ==
    /\ card.stage = "rendered"
    /\ card.clicked = 3
    /\ card.expanded
    /\ card.dom.ariaLabel[1] = "Collapse"

\* C23: with an onExpand callback every click on the expand button, opening
\* or closing, calls it exactly once with the student's id, so after k clicks
\* it has been called k times; without a callback the clicks still toggle
\* the card and nothing throws.
C23_OnExpandEveryClick ==
    card.stage = "rendered" =>
        /\ ~card.thrown
        /\ card.onExpand = Fn =>
              card.expandCalls = [k \in 1..card.clicked |-> card.student.id]
        /\ card.onExpand = Undefined =>
              /\ card.expandCalls = <<>>
              /\ card.dom.ariaExpanded = (card.clicked % 2 = 1)

\* The callback has been called for an opening click and for a closing click
C23_Witness ==
    /\ card.stage = "rendered"
    /\ card.onExpand = Fn
    /\ card.clicked >= 2
    /\ Len(card.expandCalls) = card.clicked
    /\ card.expandCalls[2] = card.student.id

\* C24: after every navigation over the two routes, starting at "/", the
\* current route's path and name are those of the last target ("/" and Home,
\* or "/students" and Students), and exactly one page component is rendered:
\* HomePage iff the route is "/", StudentsPage iff it is "/students".
C24_RouteIsTargetOnePage ==
    /\ target \in {"/", "/students"}
    /\ route.path = target
    /\ route.name = (IF target = "/" THEN "Home" ELSE "Students")
    /\ Rendered = {RouterView(route)}
    /\ ("HomePage" \in Rendered) = (route.path = "/")
    /\ ("StudentsPage" \in Rendered) = (route.path = "/students")
    /\ Cardinality({i \in Instances : mounted[i]}) <= 1

\* Back on the home route after the students route has been visited twice
C24_Witness ==
    /\ target = "/"
    /\ route.name = "Home"
    /\ Rendered = {"HomePage"}
    /\ Cardinality({i \in Instances : pc[i] # "none"}) >= 2

\* C25: the classification is a strict precedence, timeout over server error
\* over network error: an error with code ECONNABORTED gives the timeout
\* message even when it carries a response or a request, and an error with
\* both a response and a request gives "Server error: " and the status,
\* never the network message.
C25_StrictPrecedence ==
    CallRejected =>
        LET err == call.outcome.err
            message == call.completion.value.message.v
        IN  /\ (/\ err.code = Str(ECONNABORTED)
                /\ (err.response # Undefined \/ err.request # Undefined))
                  => message = TimeoutMessage
            /\ (/\ err.code # Str(ECONNABORTED)
                /\ err.response # Undefined
                /\ err.request # Undefined)
                  => /\ message = ServerErrorPrefix \o NatToStr(err.response.status)
                     /\ message # NetworkMessage

\* A timeout that carries both a response and a request
C25_Witness ==
    /\ CallRejected
    /\ call.outcome.err = ErrorObject(Str(ECONNABORTED), HttpResponse(500), Obj)
    /\ call.completion.value.message.v = TimeoutMessage

\* C26: with the real fetch client every Failure that fetchStudents returns
\* has a non-empty message, so a failed request leaves a truthy error in the
\* view: a view in the document shows the error region and not the
\* students-list container, and a settled view that shows the list got a list.
C26_RealFailureShowsError ==
    \A i \in Instances :
        /\ ResolvedToFailure(i) =>
              /\ settled[i].value.message.v # <<>>
              /\ Truthy(error[i])
              /\ mounted[i] =>
                    /\ "error" \in dom[i].regions
                    /\ "students-list" \notin dom[i].regions
        /\ (pc[i] = "done" /\ mounted[i] /\ "students-list" \in dom[i].regions)
              => ResolvedToList(i)

\* A failure of the last branch of the chain, shown in the error region
C26_Witness ==
    \E i \in Instances :
        /\ ResolvedToFailure(i) /\ mounted[i]
        /\ settled[i].value.message.v = DefaultMessage
        /\ dom[i].regions = {"error"}
        /\ dom[i].errorText = DefaultMessage

\* C27: when fetchStudents breaks its contract (it rejects, or resolves to
\* null or undefined) the mount handler still runs to its end and the view
\* ends in Error with the fixed message "An unexpected error occurred",
\* loading false and no items.
C27_ContractBreachShowsUnexpected ==
    \A i \in Instances :
        (/\ pc[i] = "done"
         /\ settled[i] \in {Rejected, Fulfilled(Null), Fulfilled(Undefined)}) =>
            /\ error[i] = Str(UnexpectedMessage)
            /\ ~loading[i]
            /\ students[i] = Arr(<<>>)
            /\ mounted[i] =>
                  /\ dom[i].regions = {"error"}
                  /\ dom[i].errorText = UnexpectedMessage
                  /\ dom[i].items = <<>>

\* One view saw the call resolve to null, another saw it reject
C27_Witness ==
    \E i, j \in Instances :
        /\ pc[i] = "done" /\ settled[i] = Fulfilled(Null)
        /\ error[i] = Str(UnexpectedMessage)
        /\ pc[j] = "done" /\ settled[j] = Rejected /\ mounted[j]
        /\ dom[j].errorText = UnexpectedMessage

\* C28: the step that applies a settled call touches only its own fields: on
\* a Failure the items stay empty, the count shown stays 0, and error and
\* loading are what changes; on a list the error stays null; and whenever
\* the students-list container is shown the count in the subtitle is the
\* number of rendered items.
C28_TransitionsTouchOwnFields ==
    [][\A i \in Instances :
          /\ (pc[i] = "awaiting" /\ pc'[i] = "done" /\ settled'[i].kind = "fulfilled") =>
                /\ settled'[i].value.t = "object" =>
                      /\ students'[i] = students[i]
                      /\ students'[i] = Arr(<<>>)
                      /\ ~loading'[i]
                      /\ mounted'[i] => dom'[i].subtitle = 0
                /\ settled'[i].value.t = "array" =>
                      /\ error'[i] = error[i]
                      /\ error'[i] = Null
                      /\ ~loading'[i]
          /\ (mounted'[i] /\ "students-list" \in dom'[i].regions) =>
                dom'[i].subtitle = Len(dom'[i].items)]_vars

\* One view ended in a failure with no items, another shows two students
C28_Witness ==
    \E i, j \in Instances :
        /\ ResolvedToFailure(i) /\ students[i] = Arr(<<>>) /\ Truthy(error[i])
        /\ ResolvedToList(j) /\ mounted[j] /\ error[j] = Null
        /\ dom[j].subtitle = 2 /\ Len(dom[j].items) = 2

\* C29: view instances share no mutable state: the loading, error and
\* students of an instance change only in a step of that instance itself
\* (its setup, its mounted hook, or the continuation of the request it
\* issued), so the late result of an unmounted instance's request is never
\* applied to the instance mounted after it.
C29_InstancesShareNothing ==
    [][\A i \in Instances :
          /\ (\/ students'[i] # students[i]
              \/ loading'[i] # loading[i]
              \/ error'[i] # error[i]) => pc'[i] # pc[i]
          /\ (pc[i] = "awaiting" /\ pc'[i] = "done") =>
                \A j \in Instances \ {i} :
                    /\ students'[j] = students[j]
                    /\ loading'[j] = loading[j]
                    /\ error'[j] = error[j]
                    /\ dom'[j] = dom[j]
                    /\ settled'[j] = settled[j]]_vars

\* The request of an unmounted instance has been applied to that instance
\* while the instance mounted after it is still waiting for its own
C29_Witness ==
    \E i, j \in Instances :
        /\ i < j
        /\ pc[i] = "done" /\ ~mounted[i] /\ ResolvedToList(i)
        /\ Len(students[i].v) = 2
        /\ pc[j] = "awaiting" /\ mounted[j]
        /\ loading[j] /\ error[j] = Null /\ students[j] = Arr(<<>>)
        /\ dom[j].regions = {"loading"}

\* C30: the fallbacks depend on the first and the last split segment being
\* empty, not on the number of tokens: the first name is "student" when the
\* characters before the first space are none, the last name is "user" when
\* the characters after the last space are none, the empty name gives
\* "student.user@student.edu.ph", and otherwise the first and last names are
\* those segments lower-cased.
C30_FallbackBySegment ==
    CallTransformed =>
        \A k \in 1..Len(Students) :
            LET name == RawUsers[k].name.v
                first == IF FirstSegment(name) = <<>> THEN DefaultFirstName
                         ELSE toLowerCase(FirstSegment(name))
                last == IF LastSegment(name) = <<>> THEN DefaultLastName
                        ELSE toLowerCase(LastSegment(name))
            IN  /\ Students[k].email = EmailOf(first, last)
                /\ Students[k].website = WebsiteOf(first, last)
                /\ (name # <<>> /\ name[1] = " ") =>
                       StartsWith(Students[k].email, StudentEmailStart)
                /\ (name # <<>> /\ name[Len(name)] = " ") =>
                       EndsWith(Students[k].email, UserEmailEnd)
                /\ name = <<>> => Students[k].email = StudentUserEmail

\* A name that has a token and ends with a space gets the last name "user"
C30_Witness ==
    /\ CallTransformed /\ Len(Students) = 1
    /\ RawUsers[1].name.v = <<"A", "b", " ">>
    /\ Students[1].email = <<"a", "b">> \o UserEmailEnd
    /\ Students[1].website = <<"a", "b">> \o UserWebsiteEnd

====
